---- MODULE Spec2Model ----
(***************************************************************************)
(* The Packs pack (src/packs/pack.ts): the Pack lookup formula, the Packs  *)
(* and MyPacks sync tables and the MyPacks update path, as one state       *)
(* machine.  A behaviour follows one formula: the host invokes it, the     *)
(* fetcher and the helper promises answer, the formula returns or throws.  *)
(* For a sync table the host calls execute again with each continuation it *)
(* was handed.                                                             *)
(*                                                                         *)
(* JavaScript runs a handler to completion between two awaits, so every    *)
(* action below is the code between two awaits of one handler; the order   *)
(* of the statements inside such a block is kept in the variable log.      *)
(***************************************************************************)
EXTENDS Integers, Sequences, FiniteSets, TLC

\* ------------------------------------------------------------------ bounds
MaxPages == 3           \* pages of the server's listing chain
PageCap == 2            \* items of a full page of the server
NumMetadataTypes == 2   \* keys of the MetadataTypes registry
MaxMetadata == 2        \* length of the metdata argument
NumCategories == 3      \* categories the host offers

\* ------------------------------------------------------------------ values
Limit == 20

Undefined == [base |-> "undefined", params |-> <<>>]
EmptyString == [base |-> "", params |-> <<>>]

\* JavaScript truthiness of a url-valued expression: `!url`, `if (nextPageLink)`.
Truthy(v) == v # Undefined /\ v # EmptyString

BoolStr(b) == IF b THEN "true" ELSE "false"

\* coda.withQueryParams(coda.joinUrl(host, path), params): values are stringified.
WithQueryParams(path, params) == [base |-> path, params |-> params]

ListingsPath == "apis/v1/packs/listings"
PacksPath == "apis/v1/packs"

Formulas == {"Pack", "SyncPacks", "SyncMyPacks", "Update"}
SyncFormulas == {"SyncPacks", "SyncMyPacks"}

MetadataTypes == 1..NumMetadataTypes
UnknownKey == NumMetadataTypes + 1
Categories == 1..NumCategories
Fields == {"categories", "description"}

SeqsUpTo(S, n) == UNION {[1..k -> S] : k \in 0..n}
Range(s) == {s[i] : i \in DOMAIN s}
Injective(s) == \A i, j \in DOMAIN s : s[i] = s[j] => i = j
Includes(s, x) == \E i \in DOMAIN s : s[i] = x
Positions(s, e) == {i \in DOMAIN s : s[i] = e}
Count(s, e) == Cardinality(Positions(s, e))

NoArgs ==
  [includePublished |-> FALSE, includeWorkspace |-> FALSE,
   includePrivate |-> FALSE, metadata |-> <<>>]
NoUpdate ==
  [previousCategories |-> <<>>, newCategories |-> <<>>, updatedFields |-> {}]
NoServer == [numPages |-> 1, lastLen |-> 0]

VARIABLES
  formula,       \* the formula this behaviour follows
  args,          \* SyncPacks: the formula's arguments
  update,        \* executeUpdate: updates[0]
  server,        \* the listing chain the server holds
  continuation,  \* context.sync.continuation of the running invocation:
                 \* <<>> (none) or <<[url |-> link]>>
  pc,            \* position of the running invocation
  url,           \* url of the invocation's listing GET
  items,         \* response.body.items of the invocation (<<>> before)
  nextPageLink,  \* response.body.nextPageLink of the invocation
  jobs,          \* the invocation's jobs array, with each promise's state
  log,           \* what the invocation did, in order
  result,        \* what the invocation returned
  error,         \* what the invocation threw
  calls,         \* sync: execute invocations so far
  fetched,       \* sync: listing GETs answered so far, per page
  returned       \* sync: ids of all items returned so far, in order

vars ==
  <<formula, args, update, server, continuation, pc, url, items, nextPageLink,
    jobs, log, result, error, calls, fetched, returned>>

\* ------------------------------------------------------------------ server
Pages == 1..MaxPages

PageLink(path, p) == WithQueryParams(path, << <<"pageToken", ToString(p)>> >>)

PathOf(f) == IF f = "SyncMyPacks" THEN PacksPath ELSE ListingsPath

\* The page a listing url names: a next-page link names its page, any other
\* listing url (the initial one) the first page.
PageOf(u) ==
  IF \E p \in Pages : u = PageLink(u.base, p)
    THEN CHOOSE p \in Pages : u = PageLink(u.base, p)
    ELSE 1

PageLen(s, p) == IF p < s.numPages THEN PageCap ELSE s.lastLen

RawItem(p, i) == [id |-> (p - 1) * PageCap + i, formatted |-> FALSE]

PageItems(s, p) == [i \in 1..PageLen(s, p) |-> RawItem(p, i)]

\* ------------------------------------------------------------------ helpers
FormatItem(item) == [item EXCEPT !.formatted = TRUE]

IsRegistered(key) == key \in MetadataTypes

Job(kind, n) == [kind |-> kind, n |-> n, status |-> "pending"]

Settled(j) == j.status # "pending"
AllSettled(js) == \A i \in DOMAIN js : Settled(js[i])
AllFulfilled(js) == \A i \in DOMAIN js : js[i].status = "fulfilled"
AnyRejected(js) == \E i \in DOMAIN js : js[i].status = "rejected"

\* Promise.all(js): rejects with the first rejection, resolves when all fulfilled.
PromiseAll(js) ==
  IF AnyRejected(js) THEN "rejected"
  ELSE IF AllFulfilled(js) THEN "resolved" ELSE "pending"

\* Promise.allSettled(js): resolves when every promise has settled, never rejects.
PromiseAllSettled(js) == IF AllSettled(js) THEN "resolved" ELSE "pending"

\* A plausible slip: the fail-fast join where the best-effort one is meant.
EnrichJoinFailFast(js) == PromiseAll(js)

\* SyncPacks.execute, Pack.execute: await Promise.allSettled(jobs)
EnrichJoin(js) == PromiseAllSettled(js)

\* A plausible slip: the best-effort join where the fail-fast one is meant.
UpdateJoinBestEffort(js) == PromiseAllSettled(js)

\* executeUpdate: await Promise.all(jobs)
UpdateJoin(js) == PromiseAll(js)


NoResult == [items |-> <<>>, continuation |-> <<>>]

\* ------------------------------------------------------------------ sync: url
\* context.sync.continuation?.url
ContinuationUrl(c) == IF c = <<>> THEN Undefined ELSE c[1].url

\* A plausible slip: the include flags are passed on without the negation.
PacksInitialUrlNotNegated(a) ==
  WithQueryParams(ListingsPath,
    << <<"excludePublicPacks", BoolStr(a.includePublished)>>,
       <<"excludeWorkspaceAcls", BoolStr(a.includeWorkspace)>>,
       <<"excludeIndividualAcls", BoolStr(a.includePrivate)>>,
       <<"limit", ToString(Limit)>> >>)

\* SyncPacks.execute: the url built when the continuation carries none.
PacksInitialUrl(a) ==
  WithQueryParams(ListingsPath,
    << <<"excludePublicPacks", BoolStr(~a.includePublished)>>,
       <<"excludeWorkspaceAcls", BoolStr(~a.includeWorkspace)>>,
       <<"excludeIndividualAcls", BoolStr(~a.includePrivate)>>,
       <<"limit", ToString(Limit)>> >>)

\* SyncMyPacks.execute: the url built when the continuation carries none.
MyPacksInitialUrl ==
  WithQueryParams(PacksPath,
    << <<"accessTypes", "edit,admin">>, <<"limit", ToString(Limit)>> >>)

InitialUrl(f, a) == IF f = "SyncMyPacks" THEN MyPacksInitialUrl ELSE PacksInitialUrl(a)

\* A plausible slip: the continuation is ignored and the first page asked again.
RequestUrlIgnoringContinuation(f, a, c) == InitialUrl(f, a)

\* let url = context.sync.continuation?.url; if (!url) { url = ... }
RequestUrl(f, a, c) ==
  IF Truthy(ContinuationUrl(c)) THEN ContinuationUrl(c) ELSE InitialUrl(f, a)

\* ------------------------------------------------------------------ sync: page
NormalizeAll(its) == [i \in DOMAIN its |-> FormatItem(its[i])]
NormalizeLog(its) == [i \in DOMAIN its |-> <<"formatItem", its[i].id>>]
JobLog(js) == [i \in DOMAIN js |-> <<js[i].kind, js[i].n>>]

\* for (let key of metadata) { getMetdataSettings(key); jobs.push(callback(...)) }
\* The loop ends at the first key the registry does not hold: the lookup throws.
FirstUnknown(md) ==
  IF \E i \in DOMAIN md : ~IsRegistered(md[i])
    THEN CHOOSE i \in DOMAIN md :
           /\ ~IsRegistered(md[i])
           /\ \A j \in 1..(i - 1) : IsRegistered(md[j])
    ELSE Len(md) + 1

\* A plausible slip: an unknown key is skipped instead of failing the call.
StartJobsSkippingUnknown(md) ==
  [jobs |-> [i \in 1..Len(SelectSeq(md, IsRegistered)) |->
               Job("enrich", SelectSeq(md, IsRegistered)[i])],
   threw |-> FALSE]

StartJobs(md) ==
  [jobs |-> [i \in 1..(FirstUnknown(md) - 1) |-> Job("enrich", md[i])],
   threw |-> FirstUnknown(md) <= Len(md)]

\* A plausible slip: the jobs are started on the raw items, which are
\* normalized afterwards.
SyncPacksBlockEnrichFirst(its, md) ==
  [items |-> NormalizeAll(its),
   jobs |-> StartJobs(md).jobs,
   threw |-> StartJobs(md).threw,
   log |-> << <<"response", Len(its)>> >> \o JobLog(StartJobs(md).jobs)
             \o NormalizeLog(its)
             \o (IF StartJobs(md).threw THEN << <<"throw", 0>> >> ELSE <<>>)]

\* SyncPacks.execute from the fetch's answer to `await Promise.allSettled(jobs)`.
SyncPacksBlock(its, md) ==
  [items |-> NormalizeAll(its),
   jobs |-> StartJobs(md).jobs,
   threw |-> StartJobs(md).threw,
   log |-> << <<"response", Len(its)>> >> \o NormalizeLog(its)
             \o JobLog(StartJobs(md).jobs)
             \o (IF StartJobs(md).threw THEN << <<"throw", 0>> >> ELSE <<>>)]

\* A plausible slip: the link is wrapped whether or not the response has one.
ContinuationAlways(link) == <<[url |-> link]>>

\* let continuation; if (nextPageLink) { continuation = { url: nextPageLink }; }
Continuation(link) == IF Truthy(link) THEN <<[url |-> link]>> ELSE <<>>

Ids(its) == [i \in DOMAIN its |-> its[i].id]

\* ------------------------------------------------------------------ Init
\* The metdata argument: keys of the registry and a key outside it, in any
\* order, each chosen once.
MetadataLists ==
  {s \in SeqsUpTo(MetadataTypes \cup {UnknownKey}, MaxMetadata) : Injective(s)}

ArgsSet ==
  [includePublished : BOOLEAN, includeWorkspace : BOOLEAN,
   includePrivate : BOOLEAN, metadata : MetadataLists]

\* The host hands category lists without repeats (a multi-select column).
CategoryLists == {s \in SeqsUpTo(Categories, NumCategories) : Injective(s)}

UpdateSet ==
  [previousCategories : CategoryLists, newCategories : CategoryLists,
   updatedFields : SUBSET Fields]

ServerSet == [numPages : Pages, lastLen : 0..PageCap]

Init ==
  /\ formula \in Formulas
  /\ args \in (IF formula = "SyncPacks" THEN ArgsSet ELSE {NoArgs})
  /\ update \in (IF formula = "Update" THEN UpdateSet ELSE {NoUpdate})
  /\ server \in (IF formula \in SyncFormulas THEN ServerSet ELSE {NoServer})
  /\ continuation = <<>>
  /\ pc = "idle"
  /\ url = Undefined
  /\ items = <<>>
  /\ nextPageLink = Undefined
  /\ jobs = <<>>
  /\ log = <<>>
  /\ result = NoResult
  /\ error = "none"
  /\ calls = 0
  /\ fetched = [p \in Pages |-> 0]
  /\ returned = <<>>

\* ------------------------------------------------------------------ sync actions
\* The host calls execute: with no continuation at first, then with the one
\* the previous call returned.  The code up to `await fetcher.fetch`.
SyncStart ==
  /\ formula \in SyncFormulas
  /\ pc = "idle" \/ (pc = "returned" /\ result.continuation # <<>>)
  /\ calls <= MaxPages
  /\ continuation' = result.continuation
  /\ url' = RequestUrl(formula, args, continuation')
  /\ log' = << <<"GET", 0>> >>
  /\ pc' = "fetch"
  /\ items' = <<>>
  /\ nextPageLink' = Undefined
  /\ jobs' = <<>>
  /\ result' = NoResult
  /\ calls' = calls + 1
  /\ UNCHANGED <<formula, args, update, server, error, fetched, returned>>

\* The link the server puts on page p: the next page's, or none on the last
\* page (left out, or an empty string).
ServerLinks(f, s, p) ==
  IF p < s.numPages THEN {PageLink(PathOf(f), p + 1)} ELSE {Undefined, EmptyString}

\* SyncPacks.execute, from the answer of the listing GET to the await of the jobs.
SyncPacksResponse ==
  /\ formula = "SyncPacks"
  /\ pc = "fetch"
  /\ \E link \in ServerLinks(formula, server, PageOf(url)) :
       LET p == PageOf(url)
           b == SyncPacksBlock(PageItems(server, p), args.metadata)
       IN /\ nextPageLink' = link
          /\ items' = b.items
          /\ jobs' = b.jobs
          /\ log' = log \o b.log
          /\ pc' = IF b.threw THEN "thrown" ELSE "await"
          /\ error' = IF b.threw THEN "config" ELSE error
          /\ fetched' = [fetched EXCEPT ![p] = @ + 1]
  /\ UNCHANGED <<formula, args, update, server, continuation, url, result, calls, returned>>

\* SyncPacks.execute after `await Promise.allSettled(jobs)`: the page is
\* returned (a rejecting join would make the formula throw instead).
SyncPacksReturn ==
  /\ formula = "SyncPacks"
  /\ pc = "await"
  /\ EnrichJoin(jobs) # "pending"
  /\ IF EnrichJoin(jobs) = "rejected"
       THEN /\ pc' = "thrown"
            /\ error' = "enrichment"
            /\ log' = Append(log, <<"throw", 0>>)
            /\ UNCHANGED <<result, returned>>
       ELSE /\ result' = [items |-> items, continuation |-> Continuation(nextPageLink)]
            /\ returned' = returned \o Ids(items)
            /\ log' = Append(log, <<"return", 0>>)
            /\ pc' = "returned"
            /\ error' = error
  /\ UNCHANGED <<formula, args, update, server, continuation, url, items,
                 nextPageLink, jobs, calls, fetched>>

\* SyncMyPacks.execute, from the answer of the listing GET to the return.
SyncMyPacksResponse ==
  /\ formula = "SyncMyPacks"
  /\ pc = "fetch"
  /\ \E link \in ServerLinks(formula, server, PageOf(url)) :
       LET p == PageOf(url)
       IN /\ nextPageLink' = link
          /\ items' = NormalizeAll(PageItems(server, p))
          /\ log' = log \o << <<"response", PageLen(server, p)>> >>
                       \o NormalizeLog(PageItems(server, p))
                       \o << <<"return", 0>> >>
          /\ result' = [items |-> items', continuation |-> Continuation(link)]
          /\ returned' = returned \o Ids(items')
          /\ fetched' = [fetched EXCEPT ![p] = @ + 1]
  /\ pc' = "returned"
  /\ UNCHANGED <<formula, args, update, server, continuation, url, jobs, error, calls>>

\* A promise of the jobs array settles, whatever the formula is doing.
JobSettle ==
  /\ \E i \in DOMAIN jobs, outcome \in {"fulfilled", "rejected"} :
       /\ jobs[i].status = "pending"
       /\ jobs' = [jobs EXCEPT ![i].status = outcome]
  /\ UNCHANGED <<formula, args, update, server, continuation, pc, url, items,
                 nextPageLink, log, result, error, calls, fetched, returned>>

\* context.fetcher.fetch rejects: the awaiting formula throws.
FetchFail ==
  /\ pc \in {"fetch", "patch"}
  /\ pc' = "thrown"
  /\ error' = "transport"
  /\ log' = Append(log, <<"throw", 0>>)
  /\ UNCHANGED <<formula, args, update, server, continuation, url, items,
                 nextPageLink, jobs, result, calls, fetched, returned>>

SyncNext ==
  \/ SyncStart
  \/ SyncPacksResponse
  \/ SyncPacksReturn
  \/ SyncMyPacksResponse
  \/ JobSettle
  \/ FetchFail


\* ------------------------------------------------------------------ Pack lookup
PackId == "packId"

\* Pack.execute up to `await fetcher.fetch`.
PackStart ==
  /\ formula = "Pack"
  /\ pc = "idle"
  /\ url' = WithQueryParams(ListingsPath, << <<"packIds", PackId>> >>)
  /\ log' = << <<"GET", 0>> >>
  /\ pc' = "fetch"
  /\ UNCHANGED <<formula, args, update, server, continuation, items, nextPageLink,
                 jobs, result, error, calls, fetched, returned>>

\* response.body.items of the lookup: missing (<<>>) or a list (<<list>>).
LookupBodies == {<<>>} \cup {<<[i \in 1..n |-> RawItem(1, i)]>> : n \in 0..PageCap}

\* !items?.length
NoItems(body) == body = <<>> \/ Len(body[1]) = 0

\* Object.keys(MetadataTypes), in the registry's order.
RegistryKeys == [i \in 1..NumMetadataTypes |-> i]

\* (response.body.items ?? []).length
BodyLen(body) == IF body = <<>> THEN 0 ELSE Len(body[1])

\* A plausible slip: the emptiness test is dropped.
PackBlockUnchecked(body) ==
  [items |-> IF body = <<>> THEN <<>> ELSE NormalizeAll(body[1]),
   jobs |-> StartJobs(RegistryKeys).jobs,
   threw |-> FALSE,
   log |-> << <<"response", BodyLen(body)>>, <<"formatItem", 1>> >>
             \o JobLog(StartJobs(RegistryKeys).jobs)]

\* Pack.execute from the fetch's answer to `await Promise.allSettled(jobs)`:
\* only items[0] is normalized, the jobs get the whole list.
PackBlock(body) ==
  IF NoItems(body)
    THEN [items |-> <<>>, jobs |-> <<>>, threw |-> TRUE,
          log |-> << <<"response", BodyLen(body)>>, <<"throw", 0>> >>]
    ELSE [items |-> [body[1] EXCEPT ![1] = FormatItem(body[1][1])],
          jobs |-> StartJobs(RegistryKeys).jobs,
          threw |-> FALSE,
          log |-> << <<"response", BodyLen(body)>>, <<"formatItem", body[1][1].id>> >>
                    \o JobLog(StartJobs(RegistryKeys).jobs)]

PackResponse ==
  /\ formula = "Pack"
  /\ pc = "fetch"
  /\ \E body \in LookupBodies :
       LET b == PackBlock(body)
       IN /\ items' = b.items
          /\ jobs' = b.jobs
          /\ log' = log \o b.log
          /\ pc' = IF b.threw THEN "thrown" ELSE "await"
          /\ error' = IF b.threw THEN "notfound" ELSE error
  /\ UNCHANGED <<formula, args, update, server, continuation, url, nextPageLink,
                 result, calls, fetched, returned>>

\* Pack.execute after `await Promise.allSettled(jobs)`: return item.
PackReturn ==
  /\ formula = "Pack"
  /\ pc = "await"
  /\ EnrichJoin(jobs) = "resolved"
  /\ result' = [items |-> <<items[1]>>, continuation |-> <<>>]
  /\ log' = Append(log, <<"return", 0>>)
  /\ pc' = "returned"
  /\ UNCHANGED <<formula, args, update, server, continuation, url, items,
                 nextPageLink, jobs, error, calls, fetched, returned>>

\* ------------------------------------------------------------------ update
\* A plausible slip: the additions are pushed before the removals.
UpdateJobsAddFirst(u) ==
  IF "categories" \in u.updatedFields
    THEN LET Removed(c) == ~Includes(u.newCategories, c)
             Added(c) == ~Includes(u.previousCategories, c)
             rem == SelectSeq(u.previousCategories, Removed)
             add == SelectSeq(u.newCategories, Added)
         IN [i \in 1..Len(add) |-> Job("addCategory", add[i])]
              \o [i \in 1..Len(rem) |-> Job("removeCategory", rem[i])]
    ELSE <<>>

\* A plausible slip: the membership test of the removal loop is dropped.
UpdateJobsRemoveAll(u) ==
  IF "categories" \in u.updatedFields
    THEN LET Added(c) == ~Includes(u.previousCategories, c)
             rem == u.previousCategories
             add == SelectSeq(u.newCategories, Added)
         IN [i \in 1..Len(rem) |-> Job("removeCategory", rem[i])]
              \o [i \in 1..Len(add) |-> Job("addCategory", add[i])]
    ELSE <<>>

\* executeUpdate: the jobs array at `await Promise.all(jobs)`; every call is
\* started when it is pushed.
UpdateJobs(u) ==
  IF "categories" \in u.updatedFields
    THEN LET Removed(c) == ~Includes(u.newCategories, c)
             Added(c) == ~Includes(u.previousCategories, c)
             rem == SelectSeq(u.previousCategories, Removed)
             add == SelectSeq(u.newCategories, Added)
         IN [i \in 1..Len(rem) |-> Job("removeCategory", rem[i])]
              \o [i \in 1..Len(add) |-> Job("addCategory", add[i])]
    ELSE <<>>

PatchUrl == WithQueryParams(PacksPath, << <<"packId", PackId>> >>)

\* executeUpdate up to its first await: `await Promise.all(jobs)` when
\* categories changed, the PATCH's `await fetcher.fetch` otherwise.
UpdateStart ==
  /\ formula = "Update"
  /\ pc = "idle"
  /\ jobs' = UpdateJobs(update)
  /\ IF "categories" \in update.updatedFields
       THEN /\ log' = JobLog(jobs')
            /\ pc' = "awaitAll"
            /\ url' = url
       ELSE /\ log' = << <<"PATCH", 0>> >>
            /\ pc' = "patch"
            /\ url' = PatchUrl
  /\ UNCHANGED <<formula, args, update, server, continuation, items, nextPageLink,
                 result, error, calls, fetched, returned>>

\* `await Promise.all(jobs)` resolves; unformatItem, then the PATCH is sent.
UpdatePatch ==
  /\ formula = "Update"
  /\ pc = "awaitAll"
  /\ UpdateJoin(jobs) = "resolved"
  /\ log' = Append(log, <<"PATCH", 0>>)
  /\ url' = PatchUrl
  /\ pc' = "patch"
  /\ UNCHANGED <<formula, args, update, server, continuation, items, nextPageLink,
                 jobs, result, error, calls, fetched, returned>>

\* `await Promise.all(jobs)` rejects with the first rejection: executeUpdate
\* throws, the other calls keep running.
UpdateReject ==
  /\ formula = "Update"
  /\ pc = "awaitAll"
  /\ UpdateJoin(jobs) = "rejected"
  /\ log' = Append(log, <<"throw", 0>>)
  /\ pc' = "thrown"
  /\ error' = "category"
  /\ UNCHANGED <<formula, args, update, server, continuation, url, items,
                 nextPageLink, jobs, result, calls, fetched, returned>>

\* The PATCH is answered: formatItem(context, final); return {result: [final]}.
PatchResponse ==
  /\ formula = "Update"
  /\ pc = "patch"
  /\ items' = <<FormatItem(RawItem(1, 1))>>
  /\ result' = [items |-> items', continuation |-> <<>>]
  /\ log' = log \o << <<"response", 1>>, <<"formatItem", 1>>, <<"return", 0>> >>
  /\ pc' = "returned"
  /\ UNCHANGED <<formula, args, update, server, continuation, url, nextPageLink,
                 jobs, error, calls, fetched, returned>>

Next ==
  \/ SyncStart
  \/ SyncPacksResponse
  \/ SyncPacksReturn
  \/ SyncMyPacksResponse
  \/ JobSettle
  \/ FetchFail
  \/ PackStart
  \/ PackResponse
  \/ PackReturn
  \/ UpdateStart
  \/ UpdatePatch
  \/ UpdateReject
  \/ PatchResponse

Spec == Init /\ [][Next]_vars

\* The sync tables alone, with the progress the runtime gives: the host calls
\* execute while it holds a continuation, the fetcher answers or fails, every
\* started promise settles, a resumed formula runs on.
SyncInit == Init /\ formula \in SyncFormulas

FairSpec == SyncInit /\ [][SyncNext]_vars /\ WF_vars(SyncNext)


\* ------------------------------------------------------------------ properties
IsEv(e, name) == e[1] = name
EvPositions(name) == {i \in DOMAIN log : IsEv(log[i], name)}
Started(kind) == {i \in DOMAIN jobs : jobs[i].kind = kind}
CategoriesUpdated == "categories" \in update.updatedFields
RemovedSet == Range(update.previousCategories) \ Range(update.newCategories)
AddedSet == Range(update.newCategories) \ Range(update.previousCategories)

\* C1, as the claim states it: while an add-call exists every remove-call of
\* the update has already succeeded.
C1_AddsAfterRemovesSettled ==
  (formula = "Update" /\ Started("addCategory") # {})
    => \A i \in Started("removeCategory") : jobs[i].status = "fulfilled"

\* C1, amended: when categories changed, every remove-call and every add-call
\* of the update is started before the single Promise.all join, the removals
\* first in issue order; add-calls are therefore started while remove-calls
\* are still pending or failing, and a failed remove-call stops only the PATCH.
C1_AllCallsStartedBeforeJoin ==
  (formula = "Update" /\ pc # "idle" /\ CategoriesUpdated)
    => /\ \A i \in EvPositions("removeCategory"), j \in EvPositions("addCategory") : i < j
       /\ {jobs[i].n : i \in Started("removeCategory")} = RemovedSet
       /\ {jobs[i].n : i \in Started("addCategory")} = AddedSet
       /\ \A i \in EvPositions("removeCategory") \cup EvPositions("addCategory") :
            \A k \in EvPositions("PATCH") \cup EvPositions("throw") : i < k
       /\ (\E i \in Started("removeCategory") : jobs[i].status = "rejected")
            => EvPositions("PATCH") = {}

C1_Witness ==
  /\ formula = "Update"
  /\ pc = "thrown"
  /\ \E i \in Started("removeCategory") : jobs[i].status = "rejected"
  /\ \E j \in Started("addCategory") : jobs[j].status = "fulfilled"

HasUnknownKey == \E i \in DOMAIN args.metadata : args.metadata[i] \notin MetadataTypes

\* C2, as the claim states it: when the configuration error is raised no
\* network request has been issued by the invocation.
C2_ConfigErrorBeforeAnyRequest ==
  error = "config" => EvPositions("GET") = {}

\* C2, amended: a metadata key outside the registry fails the invocation with
\* the configuration error, but only after the listing GET has been issued and
\* answered and the items normalized; jobs exist for the keys before the
\* unknown one only, and no page is returned.
C2_ConfigErrorAfterFetch ==
  /\ (formula = "SyncPacks" /\ HasUnknownKey) => pc \in {"idle", "fetch", "thrown"}
  /\ error = "config"
       => /\ HasUnknownKey
          /\ log[1] = <<"GET", 0>>
          /\ log[2] = <<"response", Len(items)>>
          /\ \A i \in DOMAIN items : log[2 + i] = <<"formatItem", items[i].id>>
          /\ log[Len(log)] = <<"throw", 0>>
          /\ \A i \in DOMAIN jobs :
               /\ jobs[i].n = args.metadata[i]
               /\ \A j \in 1..i : args.metadata[j] \in MetadataTypes
          /\ Len(jobs) < Len(args.metadata)
          /\ args.metadata[Len(jobs) + 1] \notin MetadataTypes
          /\ result = NoResult

C2_Witness ==
  /\ error = "config"
  /\ Len(jobs) = 1
  /\ Len(items) = PageCap
  /\ fetched[1] = 1

\* What the server holds for the page the invocation asked.
ServedIds == Ids(PageItems(server, PageOf(url)))
ServedMore == PageOf(url) < server.numPages

\* C3: a SyncPacks invocation whose keys are all registered never fails because
\* an enrichment job rejected; it returns, once every one of its M jobs has
\* settled, all N items of the page and the continuation of the response, and
\* an invocation waiting for its jobs always gets to return.
C3_Safe ==
  /\ error # "enrichment"
  /\ (formula = "SyncPacks" /\ pc \in {"await", "returned"})
       => /\ Len(jobs) = Len(args.metadata)
          /\ \A i \in DOMAIN jobs : jobs[i].n = args.metadata[i]
  /\ (formula = "SyncPacks" /\ pc = "returned")
       => /\ AllSettled(jobs)
          /\ Ids(result.items) = ServedIds
          /\ result.continuation
               = (IF ServedMore
                    THEN <<[url |-> PageLink(ListingsPath, PageOf(url) + 1)]>>
                    ELSE <<>>)
          /\ error = "none"

C3_BestEffortEnrichment ==
  /\ []C3_Safe
  /\ (formula = "SyncPacks" /\ pc = "await") ~> (pc = "returned")

C3_Witness ==
  /\ formula = "SyncPacks"
  /\ pc = "returned"
  /\ Len(jobs) = MaxMetadata
  /\ jobs[1].status = "rejected"
  /\ \E i \in DOMAIN jobs : jobs[i].status = "fulfilled"
  /\ Len(result.items) = PageCap
  /\ result.continuation # <<>>

SyncComplete == formula \in SyncFormulas /\ pc = "returned" /\ result.continuation = <<>>

\* C4: the host's calls end with one that returns no continuation after at most
\* as many calls as the server has pages (unless a call throws); no page is
\* fetched twice, at the end every page was fetched exactly once, and no item
\* id is returned twice.
C4_Safe ==
  formula \in SyncFormulas
    => /\ calls <= server.numPages
       /\ \A p \in Pages : fetched[p] <= 1
       /\ Injective(returned)
       /\ SyncComplete
            => /\ calls = server.numPages
               /\ \A p \in Pages : fetched[p] = (IF p <= server.numPages THEN 1 ELSE 0)
               /\ Len(returned) = (server.numPages - 1) * PageCap + server.lastLen

C4_ContinuationTermination ==
  /\ []C4_Safe
  /\ <>(SyncComplete \/ pc = "thrown")

C4_Witness ==
  /\ SyncComplete
  /\ server.numPages = MaxPages
  /\ calls = MaxPages
  /\ Len(returned) > PageCap

ParamValues(u, name) == {u.params[i][2] : i \in {k \in DOMAIN u.params : u.params[k][1] = name}}

\* C5: an invocation issues one listing GET; its url is the continuation's url
\* when the invocation was called with one, and otherwise the initial listing
\* url: each exclude flag the negation of its include parameter (SyncPacks),
\* the page-size limit 20.
C5_ListingUrl ==
  (formula \in SyncFormulas /\ pc # "idle")
    => /\ Cardinality(EvPositions("GET")) = 1
       /\ continuation # <<>> => url = continuation[1].url
       /\ continuation = <<>>
            => /\ ParamValues(url, "limit") = {"20"}
               /\ url.base = (IF formula = "SyncPacks" THEN ListingsPath ELSE PacksPath)
               /\ formula = "SyncPacks"
                    => /\ ParamValues(url, "excludePublicPacks")
                            = {BoolStr(~args.includePublished)}
                       /\ ParamValues(url, "excludeWorkspaceAcls")
                            = {BoolStr(~args.includeWorkspace)}
                       /\ ParamValues(url, "excludeIndividualAcls")
                            = {BoolStr(~args.includePrivate)}
                       /\ Len(url.params) = 4

C5_Witness ==
  /\ formula = "SyncPacks"
  /\ pc = "fetch"
  /\ calls = 2
  /\ args.includePublished /\ ~args.includePrivate
  /\ url = PageLink(ListingsPath, 2)

\* C6: a sync invocation that returns hands back a continuation exactly when
\* the response carried a next-page link, and the continuation's url is that
\* link; a response without a link ends the sync.
C6_ContinuationIffNextLink ==
  (formula \in SyncFormulas /\ pc = "returned")
    => /\ result.continuation # <<>> <=> nextPageLink \notin {Undefined, EmptyString}
       /\ result.continuation # <<>> <=> ServedMore
       /\ result.continuation # <<>> => result.continuation = <<[url |-> nextPageLink]>>

C6_Witness ==
  /\ formula = "SyncMyPacks"
  /\ pc = "returned"
  /\ continuation # <<>>
  /\ result.continuation = <<>>
  /\ nextPageLink = EmptyString

\* C7: when categories changed, one remove-call is issued for each category of
\* P \ Q, one add-call for each category of Q \ P, and no call for any other.
C7_CategoryDiff ==
  (formula = "Update" /\ pc # "idle" /\ CategoriesUpdated)
    => \A c \in Categories :
         /\ Count(log, <<"removeCategory", c>>) = (IF c \in RemovedSet THEN 1 ELSE 0)
         /\ Count(log, <<"addCategory", c>>) = (IF c \in AddedSet THEN 1 ELSE 0)
         /\ Cardinality({i \in DOMAIN jobs : jobs[i].n = c})
              = (IF c \in RemovedSet \cup AddedSet THEN 1 ELSE 0)

C7_Witness ==
  /\ formula = "Update"
  /\ pc = "returned"
  /\ update.previousCategories = <<1, 2>>
  /\ update.newCategories = <<2, 3>>
  /\ JobLog(jobs) = << <<"removeCategory", 1>>, <<"addCategory", 3>> >>

\* C8: an update issues at most one PATCH, and only once every category call
\* has succeeded; an update that returns has issued exactly one; a failed
\* category call leaves the update without PATCH and without result, and the
\* only category calls ever issued are those of the diff.
C8_PatchAfterCategoryCalls ==
  formula = "Update"
    => /\ Cardinality(EvPositions("PATCH")) <= 1
       /\ EvPositions("PATCH") # {} => AllFulfilled(jobs)
       /\ pc \in {"patch", "returned"} => Cardinality(EvPositions("PATCH")) = 1
       /\ pc = "returned" <=> result # NoResult
       /\ AnyRejected(jobs)
            => /\ EvPositions("PATCH") = {}
               /\ result = NoResult
               /\ pc \in {"awaitAll", "thrown"}
       /\ Cardinality(EvPositions("removeCategory") \cup EvPositions("addCategory"))
            = Len(jobs)
       /\ Len(jobs) = (IF CategoriesUpdated /\ pc # "idle"
                         THEN Cardinality(RemovedSet) + Cardinality(AddedSet) ELSE 0)

C8_Witness ==
  /\ formula = "Update"
  /\ pc = "thrown"
  /\ error = "category"
  /\ Len(jobs) = 3
  /\ Cardinality({i \in DOMAIN jobs : jobs[i].status = "fulfilled"}) = 2

\* C9: in a SyncPacks invocation every job is started after the listing GET
\* was answered and after every item of the page was normalized, and the page
\* is returned after every started job has settled.
C9_FetchNormalizeEnrich ==
  formula = "SyncPacks"
    => /\ \A j \in EvPositions("enrich") :
            /\ \E g \in EvPositions("GET"), r \in EvPositions("response") : g < r /\ r < j
            /\ \A i \in DOMAIN items :
                 \E k \in 1..(j - 1) : log[k] = <<"formatItem", items[i].id>>
       /\ jobs # <<>>
            => /\ Ids(items) = ServedIds
               /\ \A i \in DOMAIN items : items[i].formatted
       /\ Cardinality(EvPositions("enrich")) = Len(jobs)
       /\ \A t \in EvPositions("return") :
            /\ AllSettled(jobs)
            /\ \A j \in EvPositions("enrich") : j < t

C9_Witness ==
  /\ formula = "SyncPacks"
  /\ pc = "returned"
  /\ Len(jobs) = 2
  /\ Len(items) = PageCap

\* C10: a lookup answered with no items (an empty or a missing list) fails with
\* "Pack not found" and neither normalizes nor starts a job; a lookup answered
\* with items returns the first one, normalized, once a job for every registry
\* key has been started and has settled.
C10_PackNotFound ==
  formula = "Pack"
    => /\ <<"response", 0>> \in Range(log)
            => /\ pc = "thrown" /\ error = "notfound"
               /\ EvPositions("formatItem") = {} /\ EvPositions("enrich") = {}
               /\ jobs = <<>>
               /\ result = NoResult
       /\ (\E n \in 1..PageCap : <<"response", n>> \in Range(log))
            => /\ pc \in {"await", "returned"} /\ error = "none"
               /\ [i \in DOMAIN jobs |-> jobs[i].n] = RegistryKeys
               /\ pc = "returned"
                    => /\ AllSettled(jobs)
                       /\ result.items = <<FormatItem(RawItem(1, 1))>>
       /\ error = "notfound" => <<"response", 0>> \in Range(log)

C10_Witness ==
  /\ formula = "Pack"
  /\ pc = "thrown"
  /\ error = "notfound"

====
